---- MODULE Spec2Model ----
(***************************************************************************)
(* Ingestion and normalisation pipeline of FakeNewsVerificaTon:            *)
(*   - the in-process sliding-window rate limiter (lib/rateLimitUpstash),  *)
(*   - the transcription job client (lib/services/extractor.audio),        *)
(*   - the caption extractor (lib/services/extractor.youtube),             *)
(*   - the /api/check request handler (app/api/check/route.ts).            *)
(* Each component has its own specification over the shared variables.     *)
(***************************************************************************)
EXTENDS Integers, Sequences, FiniteSets, TLC

(***************************************************************************)
(* Bounds of the model.                                                    *)
(***************************************************************************)
\* Date.now() advances in steps of TickMs milliseconds, up to MaxTime.
TickMs == 30000
MaxTime == 90000
\* Number of check outcomes remembered after a capacity-restoring tick.
MaxResults == 3
MaxBlocks == 2
MaxOrphans == 2
MaxRetryCount == 5

(***************************************************************************)
(* Program constants.                                                      *)
(***************************************************************************)
windowMs == 60000
maxRequests == 10

\* Caller identifiers handed to the limiter.
Identifiers == {"10.0.0.1", "unknown"}

\* checkRateLimitAsync(`sub:${ip}`): the identifier /api/subscribe hands over.
SubscribeKey(ip) == "sub:" \o ip

\* Every key the map can hold: the identifiers, as /api/check hands them
\* over, and what /api/subscribe makes of them.
Buckets ==
    LET callers == Identifiers \cup {SubscribeKey(ip) : ip \in Identifiers}
    IN  callers \cup {SubscribeKey(ip) : ip \in callers}

VARIABLES
    now,          \* Date.now(), in milliseconds
    hits,         \* Map<string, number[]>: identifier -> stored timestamps
    lastCheck,    \* the decision returned by the latest inMemoryCheck call,
                  \* with the number of allowed decisions of the identifier
                  \* that lay in the window when the call was made (before)
    allowedLog,   \* history: per identifier, times of the allowed decisions
                  \* that still lie in the trailing window ending at now
    stale,        \* history: per identifier, times of the allowed decisions
                  \* that left the window since the last access to its entry
    unswept,      \* history: the map hits as the same checks leave it when
                  \* the sweep never runs
    unsweptCheck, \* history: the decision of the latest check on unswept
    restore       \* history: per identifier, what happened since the
                  \* identifier was last at capacity when the clock moved

VARIABLES
    aPc,          \* position of the extractAudioTranscript call
    status,       \* let status: the tracked job status
    attempts,     \* let attempts
    aReqs,        \* requests issued so far: [upload, poll, download]
    aResult,      \* the AudioExtractionResult returned, NoResult before
    aUpload,      \* history: outcome of the upload request
    aSeen,        \* history: set of outcomes of the poll requests so far
    aLastPoll,    \* history: outcome of the latest poll request
    aDownload     \* history: outcome of the download request

VARIABLES
    sPc,          \* position in the conversion of the downloaded document
    sDoc,         \* const srtRaw: the document, as blocks of lines
    sSegments,    \* const segments = srtToJson(srtRaw)
    sText         \* const fullText = segmentsToText(segments)

VARIABLES
    yPc,          \* position of the extractYouTubeTranscript call
    yUrl,         \* the url argument of the call
    yFetches,     \* language hints of the fetchTranscript calls issued so far
    yWarnings,    \* const warnings: string[]
    yResult,      \* the ExtractionResult returned, NoResult before
    yPreferred,   \* history: outcome of the preferred-language fetch
    yClean,       \* history: length of the cleaned transcript text
    yFallback     \* history: outcome of the fetch without language preference

VARIABLES
    scriptLoaded,   \* the Turnstile script: "loading", "loaded" or "failed"
    retryCount,     \* const [retryCount, setRetryCount] = useState(0)
    captchaStatus,  \* statusRef.current / status
    widget,         \* the rendered widget and the retryCount its callbacks
                    \* closed over, NoWidget when none is rendered
    timeoutRef,     \* the render timeout of timeoutRef is pending
    retryTimerRef,  \* the timer retryTimerRef points to is pending
    orphanTimers,   \* pending retry timers retryTimerRef no longer points to
    effectPending,  \* a dependency changed and the effect has not re-run yet
    orphanFired     \* history: a timer counted in orphanTimers has fired

VARIABLES
    env,          \* process.env: which credentials are configured
    rateLimiter,  \* let rateLimiter: the cached Upstash limiter exists
    req,          \* the /api/check requests being handled, by request
    analyses,     \* rows of the analyses table
    trending,     \* rows of the trending_items table
    served        \* history: per caller, the responses 400, 422, 500 and 503
                  \* sent so far

limiterVars == <<now, hits, lastCheck, allowedLog, restore, stale, unswept,
                 unsweptCheck>>
srtVars == <<sPc, sDoc, sSegments, sText>>
audioVars == <<aPc, status, attempts, aReqs, aResult,
               aUpload, aSeen, aLastPoll, aDownload, srtVars>>

captionVars == <<yPc, yUrl, yFetches, yWarnings, yResult, yPreferred, yClean,
                 yFallback>>
captchaVars == <<scriptLoaded, retryCount, captchaStatus, widget, timeoutRef,
                 retryTimerRef, orphanTimers, effectPending, orphanFired>>
storeVars == <<analyses, trending, served>>
requestVars == <<env, rateLimiter, req, storeVars>>

vars == <<limiterVars, audioVars, captionVars, captchaVars, requestVars>>

(***************************************************************************)
(* In-process limiter.                                                     *)
(***************************************************************************)
\* t => now - t < windowMs
InWindowLate(t, n) == n - t <= windowMs
InWindow(t, n) == n - t < windowMs

\* timestamps.length >= maxRequests
AtCapacityOffByOne(len) == len > maxRequests
AtCapacity(len) == len >= maxRequests

\* hits.get(ip) || []
HitsGet(ip) == IF ip \in DOMAIN hits THEN hits[ip] ELSE <<>>

\* hits.set(key, value)
HitsSetDropsOthers(key, value) == [k \in {key} |-> value]
HitsSet(key, value) ==
    [k \in (DOMAIN hits) \cup {key} |-> IF k = key THEN value ELSE hits[k]]

\* (hits.get(ip) || []).filter(t => now - t < windowMs)
Filtered(ts, n) == SelectSeq(ts, LAMBDA t : InWindow(t, n))

\* remaining: maxRequests - timestamps.length, read after the push
RemainingBeforePush(len) == maxRequests - (len - 1)
Remaining(len) == maxRequests - len

\* hits.set(ip, timestamps) of the denial branch: the entry it stores
DeniedEntryRecorded(timestamps, n) == Append(timestamps, n)
DeniedEntry(timestamps, n) == timestamps

\* The entry and the decision inMemoryCheck(ip) computes from the stored
\* timestamps stored: lines 55-65.
Decide(stored) ==
    LET timestamps == Filtered(stored, now) IN
    IF AtCapacity(Len(timestamps))
    THEN [entry |-> DeniedEntry(timestamps, now), allowed |-> FALSE,
          remaining |-> 0]
    ELSE [entry |-> Append(timestamps, now), allowed |-> TRUE,
          remaining |-> Remaining(Len(timestamps) + 1)]

\* function inMemoryCheck(ip)
InMemoryCheck(ip) ==
    LET timestamps == Filtered(HitsGet(ip), now) IN
    /\ IF AtCapacity(Len(timestamps))
       THEN /\ hits' = HitsSet(ip, DeniedEntry(timestamps, now))
            /\ lastCheck' = [id |-> ip, allowed |-> FALSE, remaining |-> 0,
                             before |-> Len(allowedLog[ip])]
       ELSE /\ hits' = HitsSet(ip, Append(timestamps, now))
            /\ lastCheck' = [id |-> ip, allowed |-> TRUE,
                             remaining |-> Remaining(Len(timestamps) + 1),
                             before |-> Len(allowedLog[ip])]
    \* history bookkeeping of the check and of its outcome
    /\ allowedLog' = [allowedLog EXCEPT ![ip] =
                        IF lastCheck'.allowed THEN Append(@, now) ELSE @]
    /\ restore' = [restore EXCEPT ![ip] =
                        IF @.armed /\ Len(@.results) < MaxResults
                        THEN [@ EXCEPT !.results = Append(@, lastCheck'.allowed)]
                        ELSE @]
    /\ stale' = [stale EXCEPT ![ip] = <<>>]
    /\ UNCHANGED now

\* export function checkRateLimit(ip): the synchronous, in-memory-only entry
CheckRateLimit ==
    /\ \E ip \in Identifiers : InMemoryCheck(ip)
    /\ UNCHANGED <<unswept, unsweptCheck>>
    /\ UNCHANGED <<audioVars, captionVars, requestVars, captchaVars>>

\* checkRateLimit(ip), made on hits and, side by side, on the map no sweep
\* has touched.
CheckBoth ==
    /\ \E ip \in Identifiers :
        LET stored == IF ip \in DOMAIN unswept THEN unswept[ip] ELSE <<>> IN
        /\ InMemoryCheck(ip)
        /\ unswept' = [k \in (DOMAIN unswept) \cup {ip} |->
                          IF k = ip THEN Decide(stored).entry ELSE unswept[k]]
        /\ unsweptCheck' = [allowed   |-> Decide(stored).allowed,
                            remaining |-> Decide(stored).remaining,
                            swept     |-> HitsGet(ip) # stored]
    /\ UNCHANGED <<audioVars, captionVars, requestVars, captchaVars>>

\* if (valid.length === 0) hits.delete(key)
SweepDeletesNever(valid) == FALSE
SweepDeletes(valid) == Len(valid) = 0

\* const valid = timestamps.filter(t => now - t < windowMs)
SweepValidNone(timestamps, n) == <<>>
SweepValid(timestamps, n) == Filtered(timestamps, n)

\* setInterval(() => { ... }, 300_000): one run of the sweep callback
Sweep ==
    /\ hits' = [k \in {key \in DOMAIN hits : ~SweepDeletes(SweepValid(hits[key], now))}
                    |-> SweepValid(hits[k], now)]
    /\ stale' = [ip \in Buckets |-> <<>>]
    /\ UNCHANGED <<now, lastCheck, allowedLog, restore, unswept, unsweptCheck>>
    /\ UNCHANGED <<audioVars, captionVars, requestVars, captchaVars>>

\* Number of logged allowed decisions of ip that leave the window when the
\* clock moves from now to n.
AgedOut(ip, n) ==
    Len(allowedLog[ip]) - Len(SelectSeq(allowedLog[ip], LAMBDA t : n - t < windowMs))

\* The clock advances.
Tick ==
    /\ now + TickMs <= MaxTime
    /\ now' = now + TickMs
    /\ allowedLog' = [ip \in Buckets |->
            SelectSeq(allowedLog[ip], LAMBDA t : now' - t < windowMs)]
    /\ restore' = [ip \in Buckets |->
            IF Len(allowedLog[ip]) = maxRequests
            THEN [armed |-> TRUE, aged |-> AgedOut(ip, now'), results |-> <<>>]
            ELSE IF restore[ip].armed
                 THEN [restore[ip] EXCEPT !.aged = @ + AgedOut(ip, now')]
                 ELSE restore[ip]]
    /\ stale' = [ip \in Buckets |->
            stale[ip] \o SelectSeq(allowedLog[ip], LAMBDA t : ~(now' - t < windowMs))]
    /\ UNCHANGED <<hits, lastCheck, unswept, unsweptCheck>>
    /\ UNCHANGED <<audioVars, captionVars, requestVars, captchaVars>>

LimiterInit ==
    /\ now = 0
    /\ hits = <<>>
    /\ lastCheck = [id |-> "none", allowed |-> FALSE, remaining |-> 0, before |-> 0]
    /\ allowedLog = [ip \in Buckets |-> <<>>]
    /\ restore = [ip \in Buckets |-> [armed |-> FALSE, aged |-> 0, results |-> <<>>]]
    /\ stale = [ip \in Buckets |-> <<>>]
    /\ unswept = <<>>
    /\ unsweptCheck = [allowed |-> FALSE, remaining |-> 0, swept |-> FALSE]

(***************************************************************************)
(* Transcription job client: extractAudioTranscript.                       *)
(***************************************************************************)
MAX_POLL_ATTEMPTS == 60

\* Job statuses the transcription service reports.
JobStatuses == {"PROCESSING", "DONE", "FAILED", "QUEUED"}
\* Non-success HTTP statuses of the upload response.
UploadErrorStatuses == {413, 500}
\* Outcomes of one poll request: a 2xx response carrying a status, a non-2xx
\* response, a fetch that throws, a 2xx response whose body is not JSON.
PollOutcomes == JobStatuses \cup {"http_error", "network_error", "bad_json"}
\* Outcomes of the download request; a 2xx response carries a subtitle
\* document, described by the length of its flattened spoken text and by
\* whether it holds an instrumental segment.
DownloadDocs == {[len |-> l, music |-> m] : l \in {0, 4, 5, 40}, m \in BOOLEAN}

NoResult == [ok |-> FALSE, error |-> "none", detail |-> "", len |-> 0,
             warnings |-> <<>>]
AudioFail(err, det, warns) ==
    [ok |-> FALSE, error |-> err, detail |-> det, len |-> 0, warnings |-> warns]

AudioInit ==
    /\ aPc = "start"
    /\ status = ""
    /\ attempts = 0
    /\ aReqs = [upload |-> 0, poll |-> 0, download |-> 0]
    /\ aResult = NoResult
    /\ aUpload = "none"
    /\ aSeen = {}
    /\ aLastPoll = "none"
    /\ aDownload = "none"

\* return { ok: false, ... }
AudioReturn(res) ==
    /\ aPc' = "done"
    /\ aResult' = res

\* lines 104-122: the credential and the data-URL checks, for a call made
\* with WHISPER_SRT_API_KEY set or not (key) and with an argument that
\* parseAudioDataUrl accepts or not (urlOk)
AudioEntry(key, urlOk) ==
    IF ~key THEN AudioFail("no_api_key", "", <<>>)
    ELSE IF ~urlOk THEN AudioFail("invalid_audio", "", <<>>)
    ELSE NoResult

AudioStart ==
    /\ aPc = "start"
    /\ \E key \in BOOLEAN, urlOk \in BOOLEAN :
          IF AudioEntry(key, urlOk) # NoResult
          THEN AudioReturn(AudioEntry(key, urlOk))
          ELSE aPc' = "upload" /\ UNCHANGED aResult
    /\ UNCHANGED <<status, attempts, aReqs, aUpload, aSeen, aLastPoll, aDownload>>
    /\ UNCHANGED <<srtVars, limiterVars, captionVars, requestVars, captchaVars>>

\* catch (err) { return { ok: false, error: `Erro ao transcrever ...` } }
CaughtError == AudioFail("exception", "", <<>>)
AudioCatchRethrows == aPc' = "thrown" /\ UNCHANGED aResult
AudioCatch == AudioReturn(CaughtError)

\* error: `Falha ao enviar áudio para transcrição (${uploadRes.status}).`
UploadFailedNoStatus(code) == AudioFail("upload_failed", "", <<>>)
UploadFailed(code) == AudioFail("upload_failed", ToString(code), <<>>)

\* let status = job.status: the loop starts from the status of the upload
JobStatusPending(st) == "PROCESSING"
JobStatus(st) == st

\* lines 137-158: the upload request and the job it creates
AudioUpload ==
    /\ aPc = "upload"
    /\ aReqs' = [aReqs EXCEPT !.upload = @ + 1]
    /\ \/ \* fetch throws, or uploadRes.json() throws
          /\ \E o \in {"network_error", "bad_json"} : aUpload' = o
          /\ AudioCatch
          /\ UNCHANGED <<status, attempts>>
       \/ \* !uploadRes.ok
          \E code \in UploadErrorStatuses :
             /\ aUpload' = ToString(code)
             /\ AudioReturn(UploadFailed(code))
             /\ UNCHANGED <<status, attempts>>
       \/ \* job created
          \E st \in JobStatuses :
             /\ aUpload' = st
             /\ status' = JobStatus(st)
             /\ attempts' = 0
             /\ aPc' = "loop"
             /\ UNCHANGED aResult
    /\ UNCHANGED <<aSeen, aLastPoll, aDownload>>
    /\ UNCHANGED <<srtVars, limiterVars, captionVars, requestVars, captchaVars>>

\* while (status === 'PROCESSING' && attempts < MAX_POLL_ATTEMPTS)
LoopContinuesInclusive(st, att) == st = "PROCESSING" /\ att <= MAX_POLL_ATTEMPTS
LoopContinues(st, att) == st = "PROCESSING" /\ att < MAX_POLL_ATTEMPTS

\* lines 160-176: one iteration of the poll loop
AudioPoll ==
    /\ aPc = "loop"
    /\ LoopContinues(status, attempts)
    /\ attempts' = attempts + 1
    /\ aReqs' = [aReqs EXCEPT !.poll = @ + 1]
    /\ \E o \in PollOutcomes :
          /\ aLastPoll' = o
          /\ aSeen' = aSeen \cup {o}
          /\ CASE o \in {"network_error", "bad_json"} ->
                    \* the exception leaves the loop through the outer catch
                    AudioCatch /\ UNCHANGED status
               [] o = "http_error" ->
                    \* if (!pollRes.ok) continue
                    UNCHANGED <<status, aPc, aResult>>
               [] OTHER ->
                    status' = o /\ UNCHANGED <<aPc, aResult>>
    /\ UNCHANGED <<aUpload, aDownload>>
    /\ UNCHANGED <<srtVars, limiterVars, captionVars, requestVars, captchaVars>>

\* attempts >= MAX_POLL_ATTEMPTS ? 'Tempo esgotado ...' : `Transcrição falhou ...`
FailureReason(st, att) ==
    IF att >= MAX_POLL_ATTEMPTS
    THEN AudioFail("timeout", "", <<>>)
    ELSE AudioFail("job_failed", st, <<>>)

\* if (status !== 'DONE') { return ... }: the statuses that get past it
ReachesDownloadUnlessFailed(st) == st # "FAILED"
ReachesDownload(st) == st = "DONE"

\* lines 178-184: the loop is left with a status other than DONE
AudioNotDone ==
    /\ aPc = "loop"
    /\ ~LoopContinues(status, attempts)
    /\ ~ReachesDownload(status)
    /\ AudioReturn(FailureReason(status, attempts))
    /\ UNCHANGED <<status, attempts, aReqs, aUpload, aSeen, aLastPoll, aDownload>>
    /\ UNCHANGED <<srtVars, limiterVars, captionVars, requestVars, captchaVars>>

\* lines 205-225: srtToJson, segmentsToText and the result built from them
TranscriptResult(doc) ==
    IF doc.len < 5
    THEN AudioFail("empty_transcript", "", <<"no_speech">>)
    ELSE [ok |-> TRUE, error |-> "", detail |-> "", len |-> doc.len,
          warnings |-> IF doc.music THEN <<"instrumental_removed">> ELSE <<>>]

\* lines 186-225: the download request and the conversion of the document
AudioDownload ==
    /\ aPc = "loop"
    /\ ~LoopContinues(status, attempts)
    /\ ReachesDownload(status)
    /\ aReqs' = [aReqs EXCEPT !.download = @ + 1]
    /\ \/ \* fetch or downloadRes.text() throws
          aDownload' = "threw" /\ AudioCatch
       \/ \* !downloadRes.ok
          /\ aDownload' = "http_error"
          /\ AudioReturn(AudioFail("download_failed", "", <<>>))
       \/ \E doc \in DownloadDocs :
             aDownload' = "document" /\ AudioReturn(TranscriptResult(doc))
    /\ UNCHANGED <<status, attempts, aUpload, aSeen, aLastPoll>>
    /\ UNCHANGED <<srtVars, limiterVars, captionVars, requestVars, captchaVars>>

AudioNext ==
    AudioStart \/ AudioUpload \/ AudioPoll \/ AudioNotDone \/ AudioDownload

(***************************************************************************)
(* Subtitle document conversion: srtToJson and segmentsToText.             *)
(* A string is the sequence of its tokens: a token is a word, a timecode,  *)
(* a single space, the arrow with or without its surrounding spaces, or    *)
(* the music-note character.                                               *)
(***************************************************************************)

\* The character U+1F3B5 of line 77.
MusicNote == "<note>"
Space == " "
\* The separator of line 72, spaces included.
Arrow == " --> "

\* String.prototype.trim: leading and trailing white space removed.
RECURSIVE TrimStart(_)
TrimStart(str) ==
    IF str # <<>> /\ Head(str) = Space THEN TrimStart(Tail(str)) ELSE str

RECURSIVE TrimEnd(_)
TrimEnd(str) ==
    IF str # <<>> /\ str[Len(str)] = Space
    THEN TrimEnd(SubSeq(str, 1, Len(str) - 1))
    ELSE str

Trim(str) == TrimEnd(TrimStart(str))

\* String.prototype.split(sep): the pieces of str between the occurrences
\* of the token sep; a string without sep is its own single piece.
RECURSIVE SplitAt(_, _)
SplitAt(str, sep) ==
    IF \E i \in 1..Len(str) : str[i] = sep
    THEN LET k == CHOOSE i \in 1..Len(str) :
                      /\ str[i] = sep
                      /\ \A j \in 1..(i - 1) : str[j] # sep
         IN  <<SubSeq(str, 1, k - 1)>>
                 \o SplitAt(SubSeq(str, k + 1, Len(str)), sep)
    ELSE <<str>>

\* Array.prototype.join(' ')
RECURSIVE JoinSpace(_)
JoinSpace(strs) ==
    IF strs = <<>> THEN <<>>
    ELSE IF Len(strs) = 1 THEN strs[1]
    ELSE strs[1] \o <<Space>> \o JoinSpace(Tail(strs))

\* String.prototype.includes
Includes(str, token) == \E i \in 1..Len(str) : str[i] = token

\* replace(/\s+/g, ' '): every run of white space becomes one space.
RECURSIVE CollapseSpaces(_)
CollapseSpaces(str) ==
    IF Len(str) < 2 THEN str
    ELSE IF str[1] = Space /\ str[2] = Space THEN CollapseSpaces(Tail(str))
    ELSE <<str[1]>> \o CollapseSpaces(Tail(str))

\* if (lines.length < 3) continue
TooFewLinesLenient(lines) == Len(lines) < 2
TooFewLines(lines) == Len(lines) < 3

\* The segment pushed for a block that passed both checks (lines 70-79).
Segment(lines) ==
    LET parts == SplitAt(lines[2], Arrow)
        text  == Trim(JoinSpace(SubSeq(lines, 3, Len(lines))))
    IN  [index        |-> Trim(lines[1]),
         start        |-> Trim(parts[1]),
         end          |-> Trim(parts[2]),
         text         |-> text,
         instrumental |-> text = <<MusicNote>> \/ Includes(text, MusicNote)]

\* srtToJson, from the blocks of the document on: the loop of lines 66-80.
RECURSIVE srtToJson(_)
srtToJson(blocks) ==
    IF blocks = <<>> THEN <<>>
    ELSE LET lines == Head(blocks)
         IN  IF TooFewLines(lines) THEN srtToJson(Tail(blocks))
             ELSE IF Len(SplitAt(lines[2], Arrow)) < 2
                  THEN srtToJson(Tail(blocks))
                  ELSE <<Segment(lines)>> \o srtToJson(Tail(blocks))

\* .map(s => s.text) over a list of segments
RECURSIVE Texts(_)
Texts(segments) ==
    IF segments = <<>> THEN <<>>
    ELSE <<Head(segments).text>> \o Texts(Tail(segments))

segmentsToText(segments) ==
    Trim(CollapseSpaces(JoinSpace(Texts(SelectSeq(segments, LAMBDA s : ~s.instrumental)))))

T1 == "00:00:01,000"
T2 == "00:00:04,000"
TimeLine == <<T1, Arrow, T2>>

\* The blocks a downloaded document is made of (srt.trim().split(/\n\s*\n/),
\* then block.split('\n')): speech, the music note alone, sung words between
\* music notes, a block without text, a time line without an arrow, a time
\* line whose arrow lacks its spaces, two text lines, and the single empty
\* line an empty document splits into.
SrtBlocks ==
    { << <<"1">>, TimeLine, <<"Ola", Space, "mundo">> >>,
      << <<"2">>, TimeLine, <<MusicNote>> >>,
      << <<"3">>, TimeLine, <<MusicNote, Space, "Ola", Space, MusicNote>> >>,
      << <<"4">>, TimeLine >>,
      << <<"5">>, <<T1>>, <<"Ola">> >>,
      << <<"6">>, <<T1, "-->", T2>>, <<"Ola">> >>,
      << <<"7", Space>>, TimeLine, <<"Ola">>, <<"mundo", Space>> >>,
      << <<>> >> }

SrtDocs == UNION { [1..n -> SrtBlocks] : n \in 1..MaxBlocks }

SrtInit ==
    /\ sPc = "start"
    /\ sDoc = <<>>
    /\ sSegments = <<>>
    /\ sText = <<>>

\* const segments = srtToJson(srtText)
SrtParse ==
    /\ sPc = "start"
    /\ \E doc \in SrtDocs :
        /\ sDoc' = doc
        /\ sSegments' = srtToJson(doc)
    /\ sPc' = "parsed"
    /\ UNCHANGED sText
    /\ UNCHANGED <<aPc, status, attempts, aReqs, aResult, aUpload, aSeen,
                   aLastPoll, aDownload>>
    /\ UNCHANGED <<limiterVars, captionVars, requestVars, captchaVars>>

\* const fullText = segmentsToText(segments)
SrtFlatten ==
    /\ sPc = "parsed"
    /\ sText' = segmentsToText(sSegments)
    /\ sPc' = "flat"
    /\ UNCHANGED <<sDoc, sSegments>>
    /\ UNCHANGED <<aPc, status, attempts, aReqs, aResult, aUpload, aSeen,
                   aLastPoll, aDownload>>
    /\ UNCHANGED <<limiterVars, captionVars, requestVars, captchaVars>>

SrtNext == SrtParse \/ SrtFlatten

(***************************************************************************)
(* Caption extractor: extractYouTubeTranscript.                            *)
(***************************************************************************)
\* if (cleaned.length < 100)
MinTranscriptLen == 100
\* if (cleaned.length > 10_000)
MaxTranscriptLen == 10000
\* length of `[Transcrição do vídeo YouTube: ${videoId}]\n\n`, videoId of 11
HeaderLen == 45

\* Joined caption texts a fetch can return: len characters, of which extra
\* disappear in the whitespace and entity normalisation.
CaptionTexts ==
    {[len |-> l, extra |-> e] : l \in {99, 100, 101, 10000, 10001, 10002},
                                e \in {0, 1}}
\* Outcomes of one fetchTranscript call that returns no items or throws.
EmptyOutcomes == {"null", "empty"}
\* err.message of a fetchTranscript call that throws.
ThrowOutcomes == {"Transcript is disabled on this video",
                  "Transcript not available for this video",
                  "Could not retrieve the transcript",
                  "socket hang up",
                  ""}

\* Links handed to the extractor; YOUTUBE_ID_REGEX finds a video id in the
\* watch, shorts, embed and youtu.be forms only.
YouTubeUrls == {"https://www.youtube.com/watch?v=abcdefghijk",
                "https://www.youtube.com/shorts/abcdefghijk",
                "https://youtu.be/abcdefghijk",
                "https://www.youtube.com/playlist?list=PL1"}

YtFail(err, warns) ==
    [ok |-> FALSE, error |-> err, len |-> 0, warnings |-> warns, sourceUrl |-> ""]
YtOk(l, url, warns) ==
    [ok |-> TRUE, error |-> "", len |-> l, warnings |-> warns, sourceUrl |-> url]

\* warnings.includes(w), for a result's warnings: string[]
HasWarning(result, w) == \E i \in 1..Len(result.warnings) : result.warnings[i] = w

CaptionInit ==
    /\ yPc = "start"
    /\ yUrl = ""
    /\ yFetches = <<>>
    /\ yWarnings = <<>>
    /\ yResult = [ok |-> FALSE, error |-> "none", len |-> 0, warnings |-> <<>>,
                  sourceUrl |-> ""]
    /\ yPreferred = "none"
    /\ yClean = 0
    /\ yFallback = "none"

Min(a, b) == IF a < b THEN a ELSE b

\* text.replace(/\s+/g, ' ') ... .trim(): the length of the cleaned text
CleanedLen(text) == text.len - text.extra

\* if (cleaned.length > 10_000)
ExceedsCapInclusive(len) == len >= MaxTranscriptLen
ExceedsCap(len) == len > MaxTranscriptLen

\* function buildTranscriptResult(text, videoId, url, warnings)
BuildTranscriptResult(text, url, warns) ==
    IF CleanedLen(text) < MinTranscriptLen
    THEN YtFail("too_short", warns)
    ELSE IF ExceedsCap(CleanedLen(text))
         THEN YtOk(HeaderLen + MaxTranscriptLen, url, Append(warns, "truncated"))
         ELSE YtOk(HeaderLen + CleanedLen(text), url, warns)

\* lines 12-20: the video id is looked up in the url
YtStart ==
    /\ yPc = "start"
    /\ \E url \in YouTubeUrls :
          /\ yUrl' = url
          \* url.match(YOUTUBE_ID_REGEX)
          /\ IF url # "https://www.youtube.com/playlist?list=PL1"
             THEN yPc' = "preferred" /\ UNCHANGED yResult
             ELSE yPc' = "done" /\ yResult' = YtFail("no_video_id", yWarnings)
    /\ UNCHANGED <<yFetches, yWarnings, yPreferred, yClean, yFallback>>
    /\ UNCHANGED <<limiterVars, audioVars, requestVars, captchaVars>>

\* lines 51-67: catch (err)
\* msg.includes('disabled') || msg.includes('not available') || msg.includes('Could not')
SaysUnavailable(msg) ==
    msg \in {"Transcript is disabled on this video",
             "Transcript not available for this video",
             "Could not retrieve the transcript"}

YtCatch(msg) ==
    IF SaysUnavailable(msg)
    THEN YtFail("no_captions", yWarnings)
    ELSE IF msg = ""
         THEN YtFail("fetch_error: erro desconhecido", yWarnings)
         ELSE YtFail("fetch_error: message", yWarnings)

\* if (!transcriptItems || transcriptItems.length === 0)
NeedsFallbackNullOnly(o) == o = "null"
NeedsFallback(o) == o \in EmptyOutcomes

\* lines 26-32, 49-50: the preferred-language fetch
YtPreferred ==
    /\ yPc = "preferred"
    /\ \/ \* await import('youtube-transcript') throws
          /\ yPc' = "done"
          /\ yResult' = YtCatch("Cannot find module")
          /\ yPreferred' = "import_failed"
          /\ UNCHANGED <<yFetches, yClean>>
       \/ \* fetchTranscript(videoId, { lang: 'pt' }) throws
          \E o \in ThrowOutcomes :
             /\ yFetches' = Append(yFetches, "pt")
             /\ yPreferred' = o
             /\ yPc' = "done"
             /\ yResult' = YtCatch(o)
             /\ UNCHANGED yClean
       \/ \* it returns nothing, or an empty list
          \E o \in {"null", "empty"} :
             /\ yFetches' = Append(yFetches, "pt")
             /\ yPreferred' = o
             /\ IF NeedsFallback(o)
                THEN yPc' = "fallback" /\ UNCHANGED <<yResult, yClean>>
                ELSE /\ yPc' = "done"
                     /\ yClean' = 0
                     /\ yResult' = BuildTranscriptResult([len |-> 0, extra |-> 0], yUrl, yWarnings)
       \/ \* it returns items
          \E text \in CaptionTexts :
             /\ yFetches' = Append(yFetches, "pt")
             /\ yPreferred' = "items"
             /\ yPc' = "done"
             /\ yClean' = CleanedLen(text)
             /\ yResult' = BuildTranscriptResult(text, yUrl, yWarnings)
    /\ UNCHANGED <<yUrl, yWarnings, yFallback>>
    /\ UNCHANGED <<limiterVars, audioVars, requestVars, captchaVars>>

\* warnings.push('Transcrição obtida em idioma alternativo (não pt-BR).')
WithAltLanguageDropped(warns) == warns
WithAltLanguage(warns) == Append(warns, "alt_language")

\* lines 34-46: the fetch without a language preference
YtFallback ==
    /\ yPc = "fallback"
    /\ yFetches' = Append(yFetches, "none")
    /\ yPc' = "done"
    /\ \/ \* .catch(() => null), null or an empty list
          /\ yFallback' \in {"threw", "null", "empty"}
          /\ yResult' = YtFail("no_captions", yWarnings)
          /\ UNCHANGED <<yWarnings, yClean>>
       \/ \E text \in CaptionTexts :
             /\ yFallback' = "items"
             /\ yWarnings' = WithAltLanguage(yWarnings)
             /\ yClean' = CleanedLen(text)
             /\ yResult' = BuildTranscriptResult(text, yUrl, yWarnings')
    /\ UNCHANGED <<yUrl, yPreferred>>
    /\ UNCHANGED <<limiterVars, audioVars, requestVars, captchaVars>>

CaptionNext == YtStart \/ YtPreferred \/ YtFallback

(***************************************************************************)
(* CaptchaWrapper: the Turnstile widget with auto-retry.                   *)
(* React runs the render effect again, its cleanup first, after            *)
(* scriptLoaded, resetKey or retryCount changed; callbacks of the widget   *)
(* and timers set by an earlier run see the retryCount of that run.        *)
(***************************************************************************)
MAX_RETRIES == 3

NoWidget == [mounted |-> FALSE, retryCount |-> 0]

CaptchaInit ==
    /\ scriptLoaded = "loading"
    /\ retryCount = 0
    /\ captchaStatus = "loading"
    /\ widget = NoWidget
    /\ timeoutRef = FALSE
    /\ retryTimerRef = FALSE
    /\ orphanTimers = 0
    /\ effectPending = FALSE
    /\ orphanFired = FALSE

CaptchaFrame == UNCHANGED <<limiterVars, audioVars, captionVars, requestVars>>

\* setRetryCount(value): a state change schedules the effect again, setting
\* the state to its current value does not.
SetRetryCount(value) ==
    /\ retryCount' = value
    /\ effectPending' = (effectPending \/ value # retryCount)

\* if (retryCount < MAX_RETRIES): the guard of the three retry branches.
MayRetry(count) == count < MAX_RETRIES

\* window.onTurnstileLoad = () => setScriptLoaded(true)
ScriptLoad ==
    /\ scriptLoaded = "loading"
    /\ scriptLoaded' = "loaded"
    /\ effectPending' = TRUE
    /\ UNCHANGED <<retryCount, captchaStatus, widget, timeoutRef,
                   retryTimerRef, orphanTimers, orphanFired>>
    /\ CaptchaFrame

\* script.onerror
ScriptError ==
    /\ scriptLoaded = "loading"
    /\ scriptLoaded' = "failed"
    /\ captchaStatus' = "error"
    /\ UNCHANGED <<retryCount, widget, timeoutRef, retryTimerRef,
                   orphanTimers, effectPending, orphanFired>>
    /\ CaptchaFrame

\* The parent increments resetKey.
ResetKey ==
    /\ ~effectPending
    /\ effectPending' = TRUE
    /\ UNCHANGED <<scriptLoaded, retryCount, captchaStatus, widget,
                   timeoutRef, retryTimerRef, orphanTimers, orphanFired>>
    /\ CaptchaFrame

\* The effect of lines 116-202 runs again: the cleanup of the previous run
\* (lines 193-200) and the clearing of lines 119-130 cancel the render
\* timeout and the one retry timer retryTimerRef points to, and remove the
\* widget; then the widget is rendered, or render throws.
RunEffect ==
    /\ effectPending
    /\ effectPending' = FALSE
    /\ IF scriptLoaded # "loaded"
       THEN UNCHANGED <<timeoutRef, retryTimerRef, widget, captchaStatus>>
       ELSE \E renders \in BOOLEAN :
              IF renders
              THEN /\ widget' = [mounted |-> TRUE, retryCount |-> retryCount]
                   /\ timeoutRef' = TRUE
                   /\ retryTimerRef' = FALSE
                   /\ captchaStatus' = "loading"
              ELSE /\ widget' = NoWidget
                   /\ timeoutRef' = FALSE
                   /\ retryTimerRef' = MayRetry(retryCount)
                   /\ captchaStatus' =
                          IF MayRetry(retryCount) THEN "retrying" ELSE "error"
    /\ UNCHANGED <<scriptLoaded, retryCount, orphanTimers, orphanFired>>
    /\ CaptchaFrame

\* callback: (token) => ...
VerifiedCallback ==
    /\ widget.mounted
    /\ timeoutRef' = FALSE
    /\ captchaStatus' = "verified"
    /\ SetRetryCount(0)
    /\ UNCHANGED <<scriptLoaded, widget, retryTimerRef, orphanTimers,
                   orphanFired>>
    /\ CaptchaFrame

\* 'expired-callback'
ExpiredCallback ==
    /\ widget.mounted
    /\ captchaStatus = "verified"
    /\ captchaStatus' = "ready"
    /\ UNCHANGED <<scriptLoaded, retryCount, widget, timeoutRef,
                   retryTimerRef, orphanTimers, effectPending, orphanFired>>
    /\ CaptchaFrame

\* 'error-callback': with retries left a new timer is stored in
\* retryTimerRef; a timer the ref pointed to stays pending.  The widget
\* reports each failed attempt, 'retry-interval' (2 s) apart.
ErrorCallback ==
    /\ widget.mounted
    /\ ~effectPending
    /\ timeoutRef' = FALSE
    /\ IF MayRetry(widget.retryCount)
       THEN /\ orphanTimers + (IF retryTimerRef THEN 1 ELSE 0) <= MaxOrphans
            /\ captchaStatus' = "retrying"
            /\ orphanTimers' = orphanTimers + (IF retryTimerRef THEN 1 ELSE 0)
            /\ retryTimerRef' = TRUE
       ELSE /\ captchaStatus' = "error"
            /\ UNCHANGED <<orphanTimers, retryTimerRef>>
    /\ UNCHANGED <<scriptLoaded, retryCount, widget, effectPending,
                   orphanFired>>
    /\ CaptchaFrame

\* The render timeout of lines 170-179 fires, RENDER_TIMEOUT_MS after the
\* render: a pending effect, due within the frame, has run by then.
RenderTimeout ==
    /\ timeoutRef
    /\ ~effectPending
    /\ timeoutRef' = FALSE
    /\ IF captchaStatus \notin {"verified", "ready"}
       THEN IF MayRetry(widget.retryCount)
            THEN /\ retryCount < MaxRetryCount
                 /\ captchaStatus' = "retrying"
                 /\ SetRetryCount(retryCount + 1)
            ELSE /\ captchaStatus' = "error"
                 /\ UNCHANGED <<retryCount, effectPending>>
       ELSE UNCHANGED <<captchaStatus, retryCount, effectPending>>
    /\ UNCHANGED <<scriptLoaded, widget, retryTimerRef, orphanTimers,
                   orphanFired>>
    /\ CaptchaFrame

\* A retry timer fires: setRetryCount(c => c + 1).  The delays are at least
\* RETRY_DELAY_MS and never shrink, so a pending effect has run by then and
\* the timers fire in the order they were set: the one retryTimerRef points
\* to is the latest.
RetryTimer ==
    /\ retryCount < MaxRetryCount
    /\ ~effectPending
    /\ \/ /\ retryTimerRef
          /\ orphanTimers = 0
          /\ retryTimerRef' = FALSE
          /\ UNCHANGED <<orphanTimers, orphanFired>>
       \/ /\ orphanTimers > 0
          /\ orphanTimers' = orphanTimers - 1
          /\ orphanFired' = TRUE
          /\ UNCHANGED retryTimerRef
    /\ SetRetryCount(retryCount + 1)
    /\ UNCHANGED <<scriptLoaded, captchaStatus, widget, timeoutRef>>
    /\ CaptchaFrame

\* handleManualRetry, offered while status === 'error'
ManualRetry ==
    /\ captchaStatus = "error"
    /\ SetRetryCount(0)
    /\ UNCHANGED <<scriptLoaded, captchaStatus, widget, timeoutRef,
                   retryTimerRef, orphanTimers, orphanFired>>
    /\ CaptchaFrame

CaptchaNext ==
    \/ ScriptLoad
    \/ ScriptError
    \/ ResetKey
    \/ RunEffect
    \/ VerifiedCallback
    \/ ExpiredCallback
    \/ ErrorCallback
    \/ RenderTimeout
    \/ RetryTimer
    \/ ManualRetry

(***************************************************************************)
(* /api/check: the POST handler, with checkRateLimitAsync and              *)
(* analyzePipeline.                                                        *)
(***************************************************************************)
\* Requests handled by the process.
Reqs == {1, 2}

\* sanitizeForLLM(textForAnalysis, 10_000)
SanitizeMax == 10000

\* Values of the x-forwarded-for header: <<>> is a request without the
\* header, otherwise the comma-separated entries.
ForwardedHeaders == {<<>>, <<"">>, <<"10.0.0.1">>, <<"10.0.0.1", "172.16.0.1">>}

\* forwarded?.split(',')[0]?.trim() || 'unknown'
ClientIpNullish(forwarded) ==
    IF forwarded = <<>> THEN "unknown" ELSE forwarded[1]
ClientIp(forwarded) ==
    IF forwarded = <<>> THEN "unknown"
    ELSE IF forwarded[1] = "" THEN "unknown"
    ELSE forwarded[1]

\* x-forwarded-for as a client of either endpoint sets it: absent, or a
\* first entry that is not an address.
EndpointHeaders == {<<>>, <<"sub:unknown">>}

\* POST /api/check, lines 32-39: the rate-limit step on the in-process map.
PostCheck ==
    /\ \E forwarded \in EndpointHeaders : InMemoryCheck(ClientIp(forwarded))
    /\ UNCHANGED <<unswept, unsweptCheck>>
    /\ UNCHANGED <<audioVars, captionVars, requestVars, captchaVars>>

\* POST /api/subscribe, lines 9-18: the same step under the key sub:<ip>.
PostSubscribe ==
    /\ \E forwarded \in EndpointHeaders :
          InMemoryCheck(SubscribeKey(ClientIp(forwarded)))
    /\ UNCHANGED <<unswept, unsweptCheck>>
    /\ UNCHANGED <<audioVars, captionVars, requestVars, captchaVars>>

EndpointsNext == PostCheck \/ PostSubscribe

\* A string: what it is, its length, and how many of its characters the
\* sanitizer strips.
Str(id, l, u) == [id |-> id, len |-> l, unsafe |-> u]
NoStr == Str("", 0, 0)

VideoUrl == Str("https://youtu.be/abcdefghijk", 28, 0)
PageUrl == Str("https://example.com/noticia", 27, 0)
AudioDataUrl == Str("data:audio/mpeg;base64,SUQz", 27, 0)
ImageDataUrl == Str("data:image/png;base64,iVBOR", 27, 0)

\* Bodies that pass analyzeSchema: { inputType, content }.
ValidBodies ==
    {[inputType |-> "text", content |-> Str("Vacina causa autismo <script>", 29, 8)],
     [inputType |-> "link", content |-> VideoUrl],
     [inputType |-> "link", content |-> PageUrl],
     [inputType |-> "link", content |-> Str("nao e um link", 13, 0)],
     [inputType |-> "audio", content |-> AudioDataUrl],
     [inputType |-> "audio", content |-> Str("SUQzBAAA", 8, 0)],
     [inputType |-> "image", content |-> ImageDataUrl]}

\* isValidUrl(content.trim())
IsValidUrl(c) == c \in {VideoUrl, PageUrl}
\* isYouTubeUrl(content.trim())
IsYouTubeUrl(c) == c = VideoUrl
\* dataUrl.match(/^data:([^;]+);base64,(.+)$/s)
IsDataUrl(c) == c \in {AudioDataUrl, ImageDataUrl}

NoFingerprint == [sha256 |-> NoStr]

\* An extraction result as the handler sees it: ExtractionResult and
\* AudioExtractionResult share ok, text, warnings and error.
Extraction(ok, err, text, warns, url) ==
    [ok |-> ok, error |-> err, text |-> text, warnings |-> warns, sourceUrl |-> url]

\* Results extractYouTubeTranscript can return for a video url: the caption
\* text in the preferred language or in another one, below and above the cap.
FromCaptions(r, id) ==
    Extraction(r.ok, r.error, IF r.ok THEN Str(id, r.len, 0) ELSE NoStr,
               r.warnings, r.sourceUrl)
CaptionResults(url) ==
    {FromCaptions(BuildTranscriptResult([len |-> l, extra |-> 0], url, <<>>),
                  "captions pt") : l \in {99, 100, 10000, 10001}}
    \cup
    {FromCaptions(BuildTranscriptResult([len |-> l, extra |-> 0], url,
                                        <<"alt_language">>),
                  "captions alt") : l \in {99, 101}}
    \cup
    {FromCaptions(YtFail(e, <<>>), "") : e \in {"no_captions", "fetch_error: message"}}

\* Results of the generic web page extractor for a page url: the page is
\* unavailable, or its text.
PageResults(url) ==
    {Extraction(FALSE, "page_unavailable", NoStr, <<>>, ""),
     Extraction(TRUE, "", Str("page text", 2000, 40), <<>>, url)}

\* extractFromUrl(url): the caption extractor for video links, the web page
\* extractor for the others
ExtractFromUrl(c) ==
    IF IsYouTubeUrl(c) THEN CaptionResults(c.id) ELSE PageResults(c.id)

\* Results extractAudioTranscript(content) can return.
FromAudio(r) ==
    Extraction(r.ok, r.error, IF r.ok THEN Str("transcript", r.len, 0) ELSE NoStr,
               r.warnings, "")
ExtractAudioTranscript(c) ==
    IF AudioEntry(env.whisper, IsDataUrl(c)) # NoResult
    THEN {FromAudio(AudioEntry(env.whisper, IsDataUrl(c)))}
    ELSE {FromAudio(r) : r \in
            {AudioFail("upload_failed", "500", <<>>), CaughtError,
             FailureReason("PROCESSING", MAX_POLL_ATTEMPTS),
             FailureReason("FAILED", 1),
             AudioFail("download_failed", "", <<>>)}
            \cup {TranscriptResult(doc) : doc \in
                    {[len |-> 4, music |-> TRUE], [len |-> 5, music |-> FALSE],
                     [len |-> 40, music |-> TRUE]}}}

\* sanitizeForLLM(text, maxLength): strips the unsafe characters, then cuts
SanitizeForLLM(text, maxLength) ==
    Str(text.id, Min(text.len - text.unsafe, maxLength), 0)

\* A response: status, error kind, and for a 200 the result's meta fields.
Response(st, err, fp, warns, url) ==
    [status |-> st, error |-> err, fingerprint |-> fp, warnings |-> warns,
     sourceUrl |-> url, retryAfter |-> ""]
\* json({ ok: false, error, message }, status)
ErrorResponse(st, err) == Response(st, err, NoFingerprint, <<>>, "")
\* json({ ok: false, error: 'RATE_LIMITED', ... }, 429, { 'Retry-After': '60' })
RateLimited == [ErrorResponse(429, "RATE_LIMITED") EXCEPT !.retryAfter = "60"]

\* History of one request: calls of the extractors, calls of analyzePipeline
\* and write requests (insert, update) sent to the database.
NoCalls == [extract |-> 0, model |-> 0, write |-> 0]

IdleRequest ==
    [pc |-> "idle", ip |-> "", rl |-> "none", body |-> "none",
     inputType |-> "", content |-> NoStr, extraction |-> Extraction(FALSE, "none", NoStr, <<>>, ""),
     textForAnalysis |-> NoStr, effectiveInputType |-> "",
     response |-> Response(0, "", NoFingerprint, <<>>, ""), denied |-> FALSE, calls |-> NoCalls,
     fp |-> NoFingerprint, headline |-> FALSE, existing |-> "none",
     trend |-> "none"]

RequestInit ==
    /\ env \in [gemini : BOOLEAN, whisper : BOOLEAN, upstash : BOOLEAN]
    /\ rateLimiter = FALSE
    /\ req = [r \in Reqs |-> IdleRequest]
    /\ analyses = {}
    /\ trending = {}
    /\ served = [ip \in Identifiers |-> 0]

\* return json(...): the handler ends with a response
Respond(r, fields, resp) ==
    req' = [req EXCEPT ![r] = [fields EXCEPT !.pc = "done", !.response = resp]]

\* catch (err) { return json({ ok: false, error: 'ANALYZE_FAILED', ... }, 500) }
Catch500(r, fields) == Respond(r, fields, ErrorResponse(500, "ANALYZE_FAILED"))

\* A request arrives: lines 33-34
Arrive(r) ==
    /\ req[r].pc = "idle"
    /\ \E forwarded \in ForwardedHeaders :
          req' = [req EXCEPT ![r].pc = "ratelimit", ![r].ip = ClientIp(forwarded)]
    /\ UNCHANGED <<env, rateLimiter, storeVars, limiterVars, audioVars, captionVars, captchaVars>>

\* if (!rl.allowed) return json({ ... error: 'RATE_LIMITED' ... }, 429, { 'Retry-After': '60' })
AfterDecisionUnenforced(r, how, allowed) ==
    req' = [req EXCEPT ![r].pc = "parse", ![r].rl = how, ![r].denied = ~allowed]
AfterDecision(r, how, allowed) ==
    IF allowed
    THEN req' = [req EXCEPT ![r].pc = "parse", ![r].rl = how]
    ELSE Respond(r, [req[r] EXCEPT !.rl = how, !.denied = TRUE], RateLimited)

\* const rl = await checkRateLimitAsync(ip), lines 35-39:
\* getUpstashLimiter, then limiter.limit(identifier) or inMemoryCheck
CheckRateLimitAsync(r) ==
    /\ req[r].pc = "ratelimit"
    /\ IF env.upstash
       THEN \/ \* the import or the constructor throws in getUpstashLimiter
               /\ ~rateLimiter
               /\ Catch500(r, [req[r] EXCEPT !.rl = "create_failed"])
               /\ UNCHANGED <<rateLimiter, limiterVars>>
            \/ \* limiter.limit(identifier) rejects
               /\ rateLimiter' = TRUE
               /\ Catch500(r, [req[r] EXCEPT !.rl = "limit_failed"])
               /\ UNCHANGED limiterVars
            \/ \* the counter service answers
               /\ rateLimiter' = TRUE
               /\ \E success \in BOOLEAN : AfterDecision(r, "upstash", success)
               /\ UNCHANGED limiterVars
       ELSE /\ InMemoryCheck(req[r].ip)
            /\ UNCHANGED <<unswept, unsweptCheck>>
            /\ AfterDecision(r, "in_memory", lastCheck'.allowed)
            /\ UNCHANGED rateLimiter
    /\ UNCHANGED <<env, storeVars, audioVars, captionVars, captchaVars>>

\* if (inputType === 'link') { if (!isValidUrl(content.trim())) return json(..., 400)
RejectsLinkNever(body) == FALSE
RejectsLink(body) == body.inputType = "link" /\ ~IsValidUrl(body.content)

\* lines 41-70: req.json(), analyzeSchema.safeParse, isGeminiConfigured and,
\* for a link, isValidUrl
ParseAndValidate(r) ==
    /\ req[r].pc = "parse"
    /\ \/ \* await req.json() throws
          Catch500(r, [req[r] EXCEPT !.body = "unparseable"])
       \/ \* !parsed.success
          Respond(r, [req[r] EXCEPT !.body = "bad_shape"],
                  ErrorResponse(400, "VALIDATION"))
       \/ \E body \in ValidBodies :
            LET fields == [req[r] EXCEPT !.body = "ok",
                                         !.inputType = body.inputType,
                                         !.content = body.content,
                                         !.textForAnalysis = body.content,
                                         !.effectiveInputType = body.inputType]
            IN  IF ~env.gemini
                THEN Respond(r, fields, ErrorResponse(503, "SERVER_MISCONFIG"))
                ELSE IF RejectsLink(body)
                     THEN Respond(r, fields, ErrorResponse(400, "VALIDATION"))
                     ELSE req' = [req EXCEPT ![r] =
                            [fields EXCEPT !.pc =
                                IF body.inputType \in {"link", "audio"}
                                THEN "extract" ELSE "analyze"]]
    /\ UNCHANGED <<env, rateLimiter, storeVars, limiterVars, audioVars, captionVars, captchaVars>>

\* lines 73-104: await extractFromUrl / await extractAudioTranscript
\* if (!extraction.ok || !extraction.text), if (!audioResult.ok || !audioResult.text)
ExtractionFailedNever(res) == FALSE
ExtractionFailed(res) == ~res.ok \/ res.text.len = 0

Extract(r) ==
    /\ req[r].pc = "extract"
    /\ \E res \in (IF req[r].inputType = "link"
                  THEN ExtractFromUrl(req[r].content)
                  ELSE ExtractAudioTranscript(req[r].content)) :
          LET fields == [req[r] EXCEPT !.extraction = res, !.calls.extract = @ + 1] IN
          IF ExtractionFailed(res)
          THEN Respond(r, fields, ErrorResponse(422, "EXTRACTION_FAILED"))
          ELSE req' = [req EXCEPT ![r] =
                    [fields EXCEPT
                        !.pc = "analyze",
                        !.textForAnalysis = res.text,
                        !.effectiveInputType =
                            IF req[r].inputType = "audio" THEN "audio_transcript"
                            ELSE IF IsYouTubeUrl(req[r].content)
                                 THEN "youtube_transcript" ELSE "link"]]
    /\ UNCHANGED <<env, rateLimiter, storeVars, limiterVars, audioVars, captionVars, captchaVars>>

\* lines 106-109: the text handed to analyzePipeline
TextForModelTextOnly(fields) ==
    IF fields.effectiveInputType = "text"
    THEN SanitizeForLLM(fields.textForAnalysis, SanitizeMax)
    ELSE fields.textForAnalysis
TextForModel(fields) ==
    IF fields.effectiveInputType \in {"text", "youtube_transcript", "audio_transcript"}
       \/ fields.inputType = "link"
    THEN SanitizeForLLM(fields.textForAnalysis, SanitizeMax)
    ELSE fields.textForAnalysis

\* const fingerprint = crypto.createHash('sha256').update(content || '').digest('hex')
\* and parsed.meta.fingerprint = fingerprint, in analyzePipeline(inputType, content)
Fingerprint(fields) == [sha256 |-> TextForModel(fields)]

\* What JSON.parse(txt) makes of the model's text in analyzePipeline: a JSON
\* object whose meta is an object, text that is not JSON (the catch builds
\* the inconclusive result, with one warning), or a JSON array, at the top
\* level or as meta. Properties assigned to an array (meta, fingerprint, ok,
\* warnings, sourceUrl) are not serialized by JSON.stringify. A JSON
\* primitive makes the assignments throw: that is the throwing outcome.
\* headline: result.summary.headline is a non-empty string once the missing
\* fields are filled in. meta.warnings of an object is empty or holds a
\* warning of the model.
ModelAnswers ==
    {[shape |-> "object", warnings |-> w, headline |-> w = <<>>] :
        w \in {<<>>, <<"model_warning">>}}
    \cup {[shape |-> "not_json", warnings |-> <<"no_professional_check">>,
           headline |-> TRUE],
          [shape |-> "array", warnings |-> <<>>, headline |-> TRUE]}

\* return json(result): the body NextResponse.json serializes
ResultBody(answer, fields) ==
    IF answer.shape = "array"
    THEN Response(200, "", NoFingerprint, <<>>, "")
    ELSE Response(200, "", Fingerprint(fields),
                  \* lines 119-125: result.meta.warnings =
                  \* [...(result.meta.warnings || []), ...extractionWarnings]
                  (IF Len(fields.extraction.warnings) > 0
                   THEN answer.warnings \o fields.extraction.warnings
                   ELSE answer.warnings),
                  fields.extraction.sourceUrl)

\* lines 106-125: sanitize, await analyzePipeline and attach the extraction
\* metadata; fp is result.meta?.fingerprint as the handler reads it later
Analyze(r) ==
    /\ req[r].pc = "analyze"
    /\ LET fields == [req[r] EXCEPT !.textForAnalysis = TextForModel(req[r]),
                                   !.calls.model = @ + 1] IN
       \/ \* getGemini, generateContent or the reading of the answer throws
          Catch500(r, fields)
       \/ \E answer \in ModelAnswers :
             req' = [req EXCEPT ![r] =
                        [fields EXCEPT !.pc = "persist",
                                       !.response = ResultBody(answer, req[r]),
                                       !.fp = Fingerprint(req[r]),
                                       !.headline = answer.headline]]
    /\ UNCHANGED <<env, rateLimiter, storeVars, limiterVars, audioVars, captionVars, captchaVars>>

\* lines 128-144: supabase.from('analyses').insert({...}) inside its own try
PersistFailureFatal(r) ==
    /\ req[r].pc = "persist"
    /\ \/ /\ Catch500(r, [req[r] EXCEPT !.calls.write = @ + 1])
          /\ UNCHANGED analyses
       \/ /\ req' = [req EXCEPT ![r].pc = "trend", ![r].calls.write = @ + 1]
          /\ analyses' = analyses \cup {[id |-> r, fingerprint |-> req[r].fp]}
    /\ UNCHANGED <<env, rateLimiter, trending, served, limiterVars, audioVars, captionVars, captchaVars>>
Persist(r) ==
    /\ req[r].pc = "persist"
    /\ req' = [req EXCEPT ![r].pc = "trend", ![r].calls.write = @ + 1]
    /\ \/ \* the insert is rejected or throws: logged, not rethrown
          UNCHANGED analyses
       \/ analyses' = analyses \cup {[id |-> r, fingerprint |-> req[r].fp]}
    /\ UNCHANGED <<env, rateLimiter, trending, served, limiterVars, audioVars, captionVars, captchaVars>>

\* A trending_items row as the select returns it; NoRow: data is null.
NoRow == [id |-> 0, occurrences |-> 0]
\* .select('id, occurrences').eq('fingerprint', fp).maybeSingle(): the row
\* when exactly one matches, otherwise null
MaybeSingle(fp) ==
    LET matches == {row \in trending : row.fingerprint = fp} IN
    IF Cardinality(matches) = 1
    THEN LET row == CHOOSE m \in matches : TRUE
         IN  [id |-> row.id, occurrences |-> row.occurrences]
    ELSE NoRow

\* lines 147-155: the lookup of the trending row, then return json(result)
\* when there is nothing to aggregate or the lookup throws
TrendFind(r) ==
    /\ req[r].pc = "trend"
    /\ IF ~req[r].headline
       THEN Respond(r, req[r], req[r].response)
       ELSE \/ \* createServerSupabase or the select throws: logged
               Respond(r, req[r], req[r].response)
            \/ \* the select answers with an error: data is null
               req' = [req EXCEPT ![r].pc = "trend_write", ![r].existing = NoRow,
                                  ![r].trend = IF MaybeSingle(req[r].fp) = NoRow
                                               THEN "found" ELSE "none"]
            \/ req' = [req EXCEPT ![r].pc = "trend_write",
                                  ![r].existing = MaybeSingle(req[r].fp),
                                  ![r].trend = "found"]
    /\ UNCHANGED <<env, rateLimiter, storeVars, limiterVars, audioVars, captionVars, captchaVars>>

\* .update({ occurrences: (existing.occurrences || 1) + 1, ... }).eq('id', existing.id)
Updated(rows, existing) ==
    {IF row.id = existing.id
     THEN [row EXCEPT !.occurrences =
                (IF existing.occurrences = 0 THEN 1 ELSE existing.occurrences) + 1]
     ELSE row : row \in rows}

\* lines 157-179: update or insert of the trending row, then return json(result)
TrendWrite(r) ==
    /\ req[r].pc = "trend_write"
    /\ \/ \* the write is rejected or throws: logged
          /\ Respond(r, [req[r] EXCEPT !.calls.write = @ + 1,
                                       !.existing = "none",
                                       !.trend = "none"],
                     req[r].response)
          /\ UNCHANGED trending
       \/ /\ Respond(r, [req[r] EXCEPT !.calls.write = @ + 1,
                                       !.existing = "none",
                                       !.trend = IF @ = "found" THEN "written"
                                                 ELSE "none"],
                     req[r].response)
          /\ trending' =
               IF req[r].existing # NoRow
               THEN Updated(trending, req[r].existing)
               ELSE trending \cup {[id |-> r, fingerprint |-> req[r].fp,
                                    occurrences |-> 1]}
    /\ UNCHANGED <<env, rateLimiter, analyses, served, limiterVars, audioVars, captionVars, captchaVars>>

Next ==
    \E r \in Reqs :
        \/ Arrive(r)
        \/ CheckRateLimitAsync(r)
        \/ ParseAndValidate(r)
        \/ Extract(r)
        \/ Analyze(r)
        \/ Persist(r)
        \/ TrendFind(r)
        \/ TrendWrite(r)

Init ==
    LimiterInit /\ AudioInit /\ SrtInit /\ CaptionInit /\ CaptchaInit /\ RequestInit

\* The process runs with every credential set and without the distributed
\* counter: the in-process limiter is the backend.
InProcessInit ==
    Init /\ env = [gemini |-> TRUE, whisper |-> TRUE, upstash |-> FALSE]

Spec == Init /\ [][Next]_vars

LimiterNext == CheckRateLimit \/ Sweep \/ Tick

SpecLimiter == InProcessInit /\ [][LimiterNext]_vars

\* The handler returns (nothing after line 39 calls the limiter) and the
\* process goes on to handle the next request.
Complete(r) ==
    /\ req[r].pc \in {"parse", "done"}
    /\ req' = [req EXCEPT ![r] = IdleRequest]
    /\ UNCHANGED <<env, rateLimiter, storeVars, limiterVars, audioVars, captionVars, captchaVars>>

\* A stream of /api/check requests, seen from the limiter: the checks of
\* concurrent requests are separate synchronous steps, so the stream is
\* handled one request after the other.
BucketReqs == {1}

\* The response has been sent, or the request has gone on to the analysis,
\* which is not followed here; a rejection that follows an allowing
\* rate-limit decision (400, 422, 500, 503) is counted for its caller.
Served(r) ==
    /\ req[r].pc \in {"analyze", "done"}
    /\ req' = [req EXCEPT ![r] = IdleRequest]
    /\ served' = [served EXCEPT ![req[r].ip] =
                    IF req[r].pc = "done" /\ req[r].response.status \in {400, 422, 500, 503}
                    THEN @ + 1 ELSE @]
    /\ UNCHANGED <<env, rateLimiter, analyses, trending, limiterVars, audioVars,
                   captionVars, captchaVars>>

\* One caller after the other, up to the answer or to the analysis, within
\* one window: the clock stands still.
ServeNext ==
    \E r \in BucketReqs :
        \/ Arrive(r)
        \/ CheckRateLimitAsync(r)
        \/ ParseAndValidate(r)
        \/ Extract(r)
        \/ Served(r)

ServeInit == Init /\ ~env.upstash

SpecServe == ServeInit /\ [][ServeNext]_vars

BucketNext ==
    \/ \E r \in BucketReqs : Arrive(r) \/ CheckRateLimitAsync(r) \/ Complete(r)
    \/ Tick

SpecBucket == InProcessInit /\ [][BucketNext]_vars

\* The sweep timer keeps firing: a sweep that has something to purge runs.
SpecLimiterFair == InProcessInit /\ [][LimiterNext]_vars /\ WF_vars(Sweep)

SpecAudio == InProcessInit /\ [][AudioNext]_vars

SpecCaption == InProcessInit /\ [][CaptionNext]_vars

\* The limiter next to a copy of its map that the sweep leaves alone.
SweepNext == CheckBoth \/ Sweep \/ Tick

SpecSweep == InProcessInit /\ [][SweepNext]_vars

SpecEndpoints == InProcessInit /\ [][EndpointsNext]_vars

SpecSrt == InProcessInit /\ [][SrtNext]_vars

SpecCaptcha == InProcessInit /\ [][CaptchaNext]_vars

\* Every network call of extractAudioTranscript eventually returns or fails:
\* the call keeps taking steps while it has one to take.
SpecAudioFair == InProcessInit /\ [][AudioNext]_vars /\ WF_vars(AudioNext)

\* C1: for every identifier at most maxRequests (10) allowed decisions lie in
\* the trailing windowMs (60 s) window, and a check made while 10 allowed
\* decisions of the identifier lie in that window is denied.
C1_SlidingWindowCap ==
    /\ \A ip \in Identifiers : Len(allowedLog[ip]) <= maxRequests
    /\ lastCheck.before >= maxRequests => ~lastCheck.allowed

\* A denial of an identifier whose 10 allowed decisions are spread over
\* different instants of the window.
C1_Witness ==
    \E ip \in Identifiers :
        /\ lastCheck = [id |-> ip, allowed |-> FALSE, remaining |-> 0,
                        before |-> maxRequests]
        /\ Len(allowedLog[ip]) = maxRequests
        /\ allowedLog[ip][1] < allowedLog[ip][maxRequests]

\* C10: when an identifier was at capacity and exactly one of its allowed
\* decisions (the oldest) has left the window since, the first check after
\* that is allowed and every later check, with no further ageing, is denied.
C10_RestoresOneSlot ==
    \A ip \in Identifiers :
        (restore[ip].armed /\ restore[ip].aged = 1)
            => \A i \in 1..Len(restore[ip].results) :
                    restore[ip].results[i] = (i = 1)

\* The oldest timestamp aged out, one check was allowed, the next denied.
C10_Witness ==
    \E ip \in Identifiers :
        /\ restore[ip].armed
        /\ restore[ip].aged = 1
        /\ Len(restore[ip].results) >= 2

\* C11: every allowed decision of the in-process limiter reports remaining =
\* 10 minus the number of in-window allowed decisions of the identifier, the
\* new one included, and every denial reports remaining = 0; so the k-th
\* check of a fresh identifier reports 10 - k and the 11th is denied with 0.
C11_RemainingReported ==
    lastCheck.id # "none" =>
        IF lastCheck.allowed
        THEN lastCheck.remaining = maxRequests - (lastCheck.before + 1)
        ELSE lastCheck.remaining = 0 /\ lastCheck.before = maxRequests

\* The 10th check of an identifier, all ten at the same instant, is allowed
\* and reports nothing remaining.
C11_Witness ==
    /\ now = 0
    /\ lastCheck.allowed
    /\ lastCheck.before = maxRequests - 1
    /\ lastCheck.remaining = 0

\* C12: two /api/check requests of kind text with identical content that
\* are answered 200 carry the same meta.fingerprint, whatever the model
\* returned for each of them.
C12_SameTextSameFingerprint ==
    \A r1, r2 \in Reqs :
        (/\ req[r1].pc = "done" /\ req[r2].pc = "done"
         /\ req[r1].inputType = "text" /\ req[r2].inputType = "text"
         /\ req[r1].content = req[r2].content
         /\ req[r1].response.status = 200 /\ req[r2].response.status = 200)
            => req[r1].response.fingerprint = req[r2].response.fingerprint

C14_NeverThrows ==
    /\ aPc \in {"start", "upload", "loop", "done"}
    /\ aPc = "done" =>
          /\ aResult # NoResult
          /\ aResult.ok \in BOOLEAN
          /\ ~aResult.ok =>
                /\ aResult.error \notin {"", "none"}
                /\ aResult.warnings \in Seq({"no_speech", "instrumental_removed"})

\* A poll whose fetch threw or whose body was not JSON ended in the
\* structured failure built by the catch block.
C14_Witness ==
    /\ aPc = "done"
    /\ aLastPoll \in {"network_error", "bad_json"}
    /\ aResult = CaughtError

\* C15: every call of extractAudioTranscript terminates, and in every
\* execution the attempt counter never exceeds 60 and the call issues at
\* most 1 upload, 60 poll and 1 download requests.
C15_TerminatesWithinBounds ==
    /\ [](/\ attempts <= MAX_POLL_ATTEMPTS
          /\ aReqs.upload <= 1
          /\ aReqs.poll <= MAX_POLL_ATTEMPTS
          /\ aReqs.download <= 1)
    /\ <>(aPc = "done")

\* A call that used all 60 polls, some of them answered with a non-2xx
\* status, found the job done on the last one and downloaded the document.
C15_Witness ==
    /\ aPc = "done"
    /\ aReqs = [upload |-> 1, poll |-> MAX_POLL_ATTEMPTS, download |-> 1]
    /\ "http_error" \in aSeen

\* C16: when the call fails because the final status is not DONE, the message
\* is the timeout message exactly when the status is still PROCESSING, and
\* the failed-status message naming X exactly when the job left PROCESSING
\* for a status X other than DONE, the 60th poll included.
C16_MessageNamesTheCause ==
    (aPc = "done" /\ aResult.error \in {"timeout", "job_failed"}) =>
        /\ aResult.error = "timeout" <=> status = "PROCESSING"
        /\ aResult.error = "job_failed" => aResult.detail = status

\* C17: a caption extraction result carries the alternate-language warning
\* if and only if its text came from the fallback fetch made after the
\* preferred-language fetch returned no items; a result built from the
\* preferred-language track never carries it.
C17_AltLanguageWarningIffFallback ==
    yPc = "done" =>
        /\ HasWarning(yResult, "alt_language") <=> yFallback = "items"
        /\ yFallback = "items" => yPreferred \in EmptyOutcomes
        /\ yPreferred = "items" => ~HasWarning(yResult, "alt_language")

\* A successful result whose text came from the fallback fetch.
C17_Witness ==
    /\ yPc = "done"
    /\ yResult.ok
    /\ yFallback = "items"
    /\ yResult.warnings = <<"alt_language">>

\* C18: a transcript whose cleaned text is shorter than 100 characters yields
\* ok=false; a successful transcript whose cleaned text exceeds 10,000
\* characters is cut to 10,000 characters with the truncation warning
\* appended; a successful result carries the truncation warning exactly when
\* transcript text was dropped.
C18_MinimumAndCap ==
    (yPc = "done" /\ "items" \in {yPreferred, yFallback}) =>
        /\ yClean < MinTranscriptLen => ~yResult.ok
        /\ yResult.ok =>
              /\ yResult.len - HeaderLen = Min(yClean, MaxTranscriptLen)
              /\ HasWarning(yResult, "truncated")
                    <=> yResult.len - HeaderLen < yClean
              /\ yClean > MaxTranscriptLen =>
                    yResult.warnings[Len(yResult.warnings)] = "truncated"

\* A fallback transcript one character over the cap was cut and carries
\* both warnings.
C18_Witness ==
    /\ yPc = "done"
    /\ yResult.ok
    /\ yClean = MaxTranscriptLen + 1
    /\ yResult.warnings = <<"alt_language", "truncated">>

\* A request of kind link whose content is not a syntactically valid URL.
InvalidLink(r) ==
    /\ req[r].body = "ok"
    /\ req[r].inputType = "link"
    /\ ~IsValidUrl(req[r].content)

\* The request made no extraction call, no model call and no database write.
NothingCalled(r) ==
    /\ req[r].calls = NoCalls
    /\ \A row \in analyses \cup trending : row.id # r

\* C19 as stated: every request of kind link whose content is not a
\* syntactically valid URL is answered 400 with the validation error kind,
\* and no extraction call, model call or persistence write is made for it.
C19_InvalidLinkIs400 ==
    \A r \in Reqs :
        (InvalidLink(r) /\ req[r].pc = "done") =>
            /\ req[r].response.status = 400
            /\ req[r].response.error = "VALIDATION"
            /\ NothingCalled(r)

\* C19, amended: a request of kind link with an invalid URL never leads to
\* an extraction call, a model call or a persistence write, and on a server
\* whose model credential is configured it is answered 400 with the
\* validation error kind; without the credential the answer is 503.
C19_InvalidLinkIs400WhenConfigured ==
    \A r \in Reqs :
        InvalidLink(r) =>
            /\ req[r].pc = "done"
            /\ NothingCalled(r)
            /\ req[r].response.status = (IF env.gemini THEN 400 ELSE 503)
            /\ req[r].response.error =
                    (IF env.gemini THEN "VALIDATION" ELSE "SERVER_MISCONFIG")

\* An invalid link was answered 400 on a configured server while the other
\* request was extracted and analysed.
C19_Witness ==
    \E r, o \in Reqs :
        /\ InvalidLink(r)
        /\ req[r].response.status = 400
        /\ env.gemini
        /\ req[o].calls.extract = 1 /\ req[o].calls.model = 1

\* C20: the rate-limit check is the first step of every /api/check request:
\* the body is read and extraction, model and database calls are made only
\* after an allowing decision; a denied request is answered 429 with a
\* Retry-After hint and none of those happens for it, whatever the
\* configuration.
C20_RateLimitFirst ==
    \A r \in Reqs :
        /\ (req[r].body # "none" \/ ~NothingCalled(r)) =>
                (req[r].rl \in {"in_memory", "upstash"} /\ ~req[r].denied)
        /\ req[r].denied =>
                /\ req[r].pc = "done"
                /\ req[r].response = RateLimited
                /\ req[r].response.status = 429
                /\ req[r].response.retryAfter = "60"
                /\ req[r].body = "none"
                /\ NothingCalled(r)

\* A request was denied on a server without the model credential while the
\* other request was allowed and had its body read.
C20_Witness ==
    \E r, o \in Reqs :
        /\ req[r].denied
        /\ req[r].response.status = 429
        /\ ~env.gemini
        /\ req[o].body = "ok"

\* C21: for every request of kind text, link or audio that reaches the model,
\* the text handed to the model is sanitize with maxLength 10,000 of the
\* submitted or extracted text, so it is never longer than 10,000
\* characters; for link and audio the extraction has succeeded before.
C21_ModelGetsSanitizedText ==
    \A r \in Reqs :
        (req[r].calls.model > 0 /\ req[r].inputType \in {"text", "link", "audio"}) =>
            /\ req[r].textForAnalysis =
                    SanitizeForLLM(IF req[r].inputType = "text"
                                   THEN req[r].content
                                   ELSE req[r].extraction.text, SanitizeMax)
            /\ req[r].textForAnalysis.len <= SanitizeMax
            /\ req[r].textForAnalysis.unsafe = 0
            /\ req[r].inputType \in {"link", "audio"} =>
                    (req[r].calls.extract = 1 /\ req[r].extraction.ok)

\* A caption transcript longer than the cap reached the model cut to 10,000
\* characters, and a text with unsafe characters reached it stripped.
C21_Witness ==
    \E r, o \in Reqs :
        /\ req[r].calls.model = 1 /\ req[o].calls.model = 1
        /\ req[r].extraction.text.len > SanitizeMax
        /\ req[r].textForAnalysis.len = SanitizeMax
        /\ req[o].inputType = "text"
        /\ req[o].textForAnalysis.len < req[o].content.len

\* C22: the status and body of a response are the same whether the
\* analysis-row insert and the trending aggregation succeed or fail: from the
\* moment the analysis result is built, no persistence step changes it, and
\* it is a 200.
C22_PersistenceNeverChangesResponse ==
    [][\A r \in Reqs :
          req[r].pc \in {"persist", "trend", "trend_write"} =>
              /\ req[r].response.status = 200
              /\ req'[r].response = req[r].response
              /\ req'[r].pc \in {"persist", "trend", "trend_write", "done"}]_vars

\* Two requests got the same 200 response; the rows of one were stored, both
\* writes of the other failed.
C22_Witness ==
    \E r, o \in Reqs :
        /\ r # o
        /\ req[r].pc = "done" /\ req[o].pc = "done"
        /\ req[r].response.status = 200
        /\ req[r].response = req[o].response
        /\ req[r].calls.write = 2 /\ req[o].calls.write = 2
        /\ \E row \in analyses : row.id = r
        /\ \E row \in trending : row.id = r /\ row.occurrences = 1
        /\ \A row \in analyses \cup trending : row.id # o

\* C23: no update of the in-process limiter is lost, whatever the
\* interleaving of checks and sweeps: the timestamps stored for an identifier
\* are exactly those of its allowed checks that were within the window at
\* the last access to its entry, so at most 10 of them lie in the window and
\* two checks at capacity minus one are never both allowed.
C23_NoLostUpdate ==
    \A ip \in Identifiers :
        /\ HitsGet(ip) = stale[ip] \o allowedLog[ip]
        /\ Len(SelectSeq(HitsGet(ip), LAMBDA t : now - t < windowMs)) <= maxRequests

\* Both identifiers are at capacity, their checks interleaved, and the last
\* check, made at capacity, was denied.
C23_Witness ==
    /\ \A ip \in Identifiers : Len(HitsGet(ip)) = maxRequests
    /\ lastCheck.before = maxRequests
    /\ ~lastCheck.allowed
    /\ \A ip \in Identifiers : stale[ip] = <<>>

\* C24: a denied check appends no timestamp: it leaves the in-window
\* timestamps of its identifier unchanged and every other identifier's entry
\* untouched; the stored in-window timestamps are always those of the
\* allowed checks only, so denied checks never postpone the restoration.
C24_DenialAppendsNothing ==
    /\ [](\A ip \in Identifiers :
            SelectSeq(HitsGet(ip), LAMBDA t : now - t < windowMs) = allowedLog[ip])
    /\ [][\A ip \in Identifiers :
            (InMemoryCheck(ip) /\ ~lastCheck'.allowed) =>
                /\ SelectSeq(hits'[ip], LAMBDA t : now - t < windowMs)
                        = SelectSeq(HitsGet(ip), LAMBDA t : now - t < windowMs)
                /\ Len(hits'[ip]) <= Len(HitsGet(ip))
                /\ \A other \in Identifiers \ {ip} :
                        /\ other \in DOMAIN hits <=> other \in DOMAIN hits'
                        /\ other \in DOMAIN hits => hits'[other] = hits[other]]_vars

\* A denied check purged stale timestamps of its identifier and left the
\* stale timestamps of the other identifier in place.
C24_Witness ==
    \E ip, other \in Identifiers :
        /\ lastCheck.id = ip /\ ~lastCheck.allowed
        /\ now > 0
        /\ stale[ip] = <<>>
        /\ stale[other] # <<>>
        /\ HitsGet(other) = stale[other] \o allowedLog[other]

\* C25 as stated: at any instant the sequence stored for a key holds only
\* timestamps within the last windowMs.
C25_OnlyInWindowStored ==
    \A key \in DOMAIN hits :
        \A i \in 1..Len(hits[key]) : now - hits[key][i] < windowMs

\* C25, amended: every timestamp stored for a key is within the last
\* windowMs or was so at the last access (check of the key, or sweep) to the
\* entry: older ones are gone after each access, not at every instant.
C25_InWindowAtLastAccess ==
    \A key \in DOMAIN hits :
        \A i \in 1..Len(hits[key]) :
            \/ now - hits[key][i] < windowMs
            \/ \E j \in 1..Len(stale[key]) : stale[key][j] = hits[key][i]

\* An entry holds timestamps that left the window since its last access.
C25_Witness ==
    \E key \in DOMAIN hits :
        /\ stale[key] # <<>>
        /\ now - hits[key][1] >= windowMs

\* C26: an identifier's entry is created by a check of that identifier; an
\* entry whose timestamps have all aged out is eventually removed by the
\* sweep unless the identifier is checked again; no step removes an entry
\* that still holds an in-window timestamp.
C26_EntryLifecycle ==
    /\ [](\A ip \in Identifiers : allowedLog[ip] # <<>> => ip \in DOMAIN hits)
    /\ [][\A ip \in Identifiers :
            /\ (ip \notin DOMAIN hits /\ ip \in DOMAIN hits') => lastCheck'.id = ip
            /\ (ip \in DOMAIN hits /\ ip \notin DOMAIN hits') =>
                    SelectSeq(hits[ip], LAMBDA t : now - t < windowMs) = <<>>]_vars
    /\ \A ip \in Identifiers :
            (ip \in DOMAIN hits /\ allowedLog[ip] = <<>>)
                ~> (ip \notin DOMAIN hits \/ allowedLog[ip] # <<>>)

\* The entry of an identifier was removed after its timestamps aged out,
\* while the other identifier kept its entry.
C26_Witness ==
    \E ip, other \in Identifiers :
        /\ ip \notin DOMAIN hits
        /\ other \in DOMAIN hits
        /\ lastCheck.id = ip
        /\ now >= windowMs

\* C27: requests without a usable client address are all rate-limited under
\* the sentinel identifier "unknown": each of them is decided by the one
\* bucket of that identifier, which allows at most 10 per window, and none
\* goes on without an allowing decision of that bucket.
C27_SentinelBucketShared ==
    /\ [](\A forwarded \in ForwardedHeaders :
            (forwarded = <<>> \/ forwarded[1] = "") => ClientIp(forwarded) = "unknown")
    /\ [](Len(allowedLog["unknown"]) <= maxRequests)
    /\ [][\A r \in Reqs :
            (req[r].pc = "ratelimit" /\ req[r].ip = "unknown"
                /\ req'[r].pc # "ratelimit") =>
                /\ lastCheck'.id = "unknown"
                /\ lastCheck'.before = Len(allowedLog["unknown"])
                /\ lastCheck'.before >= maxRequests => ~lastCheck'.allowed
                /\ IF lastCheck'.allowed
                   THEN req'[r].pc = "parse"
                   ELSE req'[r].pc = "done" /\ req'[r].response.status = 429]_vars

\* The eleventh request without a usable address in one window was denied.
C27_Witness ==
    \E r \in Reqs :
        /\ req[r].ip = "unknown"
        /\ req[r].denied
        /\ req[r].response.status = 429
        /\ lastCheck.id = "unknown"
        /\ Len(allowedLog["unknown"]) = maxRequests

\* C28: the requests of one call are ordered upload, polls, download: polls
\* and the download follow the upload, the download is issued at most once
\* and only with the tracked status DONE, no request follows it, and ok=true
\* is returned only after a download that delivered the document.
C28_UploadPollsDownload ==
    /\ [](/\ aReqs.download <= 1
          /\ (aReqs.poll > 0 \/ aReqs.download > 0) =>
                (aReqs.upload = 1 /\ aUpload \in JobStatuses)
          /\ aReqs.download = 1 => (status = "DONE" /\ aPc = "done")
          /\ aResult.ok => (aReqs.download = 1 /\ aDownload = "document"))
    /\ [][aReqs.download = 1 => aReqs' = aReqs]_vars

\* A successful result after an upload, several polls and the download.
C28_Witness ==
    /\ aResult.ok
    /\ aReqs.upload = 1 /\ aReqs.poll = 3 /\ aReqs.download = 1
    /\ aDownload = "document"

C30_SpokenTextInFlatText ==
    sPc = "flat" =>
        LET Spoken(s) == s.text # <<MusicNote>>
        IN  /\ sText = Trim(CollapseSpaces(JoinSpace(
                           Texts(SelectSeq(sSegments, Spoken)))))
            /\ sSegments = srtToJson(sDoc)

\* C31: the captcha widget is auto-retried at most 3 times per reset: in every
\* interleaving of widget error callbacks, the render timeout and the retry
\* timers, retryCount never exceeds MAX_RETRIES (3), and once the retries are
\* exhausted and the status is error no further retry is counted or shown
\* until a manual retry.
C31_AtMostThreeRetries ==
    /\ [](retryCount <= MAX_RETRIES)
    /\ [][(captchaStatus = "error" /\ retryCount >= MAX_RETRIES)
             => (retryCount' <= retryCount /\ captchaStatus' # "retrying")]_vars

\* C32: trending aggregation is exact under concurrency: after N /api/check
\* requests that produce the same fingerprint have completed with working
\* persistence (the lookup answered and the write took effect), in any
\* interleaving of their find and update/insert steps, the trending store
\* holds exactly one item for that fingerprint and its occurrences value is N.
C32_TrendingExact ==
    \A fp \in {req[r].fp : r \in Reqs} :
        LET same == {r \in Reqs : req[r].fp = fp /\ req[r].pc = "done"
                                    /\ req[r].trend = "written"}
        IN  (same = Reqs) =>
                \E row \in trending :
                    /\ row.fingerprint = fp
                    /\ row.occurrences = Cardinality(Reqs)
                    /\ \A other \in trending :
                           other.fingerprint = fp => other = row

\* C33: the background sweep is invisible to callers of the in-process
\* limiter: for every sequence of checks, each decision (allowed and
\* remaining) is the one the same checks yield when the sweep never runs,
\* wherever sweeps ran between the checks.
C33_SweepInvisible ==
    lastCheck.id # "none" =>
        /\ lastCheck.allowed = unsweptCheck.allowed
        /\ lastCheck.remaining = unsweptCheck.remaining

\* A check of an identifier whose entry the sweep had purged in part: the
\* timestamps still in the window count against the caller.
C33_Witness ==
    /\ lastCheck.id # "none"
    /\ unsweptCheck.swept
    /\ lastCheck.allowed
    /\ lastCheck.remaining < maxRequests - 1

\* C34: the rate-limit buckets of the two endpoints are independent for every
\* client: for any x-forwarded-for values, a request to /api/subscribe never
\* consumes capacity of a bucket of /api/check, and a request to /api/check
\* never consumes capacity of a bucket of /api/subscribe.
C34_EndpointBucketsIndependent ==
    [][LET After(key) == IF key \in DOMAIN hits' THEN hits'[key] ELSE <<>>
       IN  /\ PostSubscribe =>
                \A forwarded \in EndpointHeaders :
                    After(ClientIp(forwarded)) = HitsGet(ClientIp(forwarded))
           /\ PostCheck =>
                \A forwarded \in EndpointHeaders :
                    After(SubscribeKey(ClientIp(forwarded)))
                        = HitsGet(SubscribeKey(ClientIp(forwarded)))]_vars

\* C35: no extracted text is dropped silently on the way to the model: for
\* every successful /api/check request of kind link, if the text given to the
\* model omits a part of the text the extractor returned because of the
\* 10,000-character cap of the sanitizer, the response's meta.warnings holds
\* a truncation warning.
C35_NoSilentTruncation ==
    \A r \in Reqs :
        (/\ req[r].pc = "done"
         /\ req[r].response.status = 200
         /\ req[r].inputType = "link"
         /\ req[r].extraction.text.len - req[r].extraction.text.unsafe
                > SanitizeMax)
            => HasWarning(req[r].response, "truncated")

\* C36: an extraction failure is terminal for its request: whenever link or
\* audio extraction returns ok=false or no text, /api/check answers 422 and
\* makes no model call, no analysis-row insert and no trending update for
\* that request.
C36_ExtractionFailureTerminal ==
    \A r \in Reqs :
        (/\ req[r].calls.extract > 0
         /\ ~req[r].extraction.ok \/ req[r].extraction.text.len = 0)
            => /\ req[r].pc = "done"
               /\ req[r].response.status = 422
               /\ req[r].response.error = "EXTRACTION_FAILED"
               /\ req[r].calls.model = 0
               /\ req[r].calls.write = 0
               /\ \A row \in analyses \cup trending : row.id # r

\* A link request and an audio request whose extraction failed, both
\* answered 422.
C36_Witness ==
    /\ req[1].inputType = "link" /\ req[2].inputType = "audio"
    /\ \A r \in Reqs :
          /\ req[r].calls.extract = 1
          /\ ~req[r].extraction.ok
          /\ req[r].response.status = 422

\* C37: every /api/check request that is not rate-limited consumes one slot
\* of its caller's bucket before anything else is examined, including the
\* requests that are then rejected with 400, 422, 500 or 503; so a caller who
\* sends 10 invalid requests within 60 seconds has its next request, valid or
\* not, answered 429.
C37_RejectedRequestsConsumeSlots ==
    /\ \A ip \in Identifiers : served[ip] <= Len(HitsGet(ip))
    /\ \A r \in BucketReqs :
          req[r].pc \notin {"idle", "ratelimit"} =>
            /\ ~req[r].denied => served[req[r].ip] + 1 <= Len(HitsGet(req[r].ip))
            /\ served[req[r].ip] = maxRequests =>
                  (req[r].pc = "done" /\ req[r].response.status = 429)

\* The eleventh request of a caller whose ten requests were all rejected.
C37_Witness ==
    \E r \in BucketReqs :
        /\ req[r].pc = "done"
        /\ req[r].response.status = 429
        /\ served[req[r].ip] = maxRequests

\* C38: a job that reports DONE is never treated as timed out: when the
\* upload response reports DONE no poll is issued; after a poll that returned
\* DONE (the 60th included) no further poll is issued and the download
\* follows; a call that ended after a DONE report has issued the download
\* and did not fail with the timeout or the job failure.
C38_DoneNeverTimedOut ==
    /\ [](/\ aUpload = "DONE" => aReqs.poll = 0
          /\ (aPc = "done" /\ (aUpload = "DONE" \/ aLastPoll = "DONE")) =>
                (aReqs.download = 1 /\ aResult.error \notin {"timeout", "job_failed"}))
    /\ [][aLastPoll = "DONE" => aReqs'.poll = aReqs.poll]_vars
    /\ ((aUpload = "DONE" \/ aLastPoll = "DONE") ~> (aReqs.download = 1))

\* The 60th poll was the first to report DONE and the download was issued.
C38_Witness ==
    /\ aReqs.poll = MAX_POLL_ATTEMPTS
    /\ aLastPoll = "DONE"
    /\ aSeen = {"PROCESSING", "DONE"}
    /\ aReqs.download = 1

\* C39: in every state of the in-process map, whatever the order of checks,
\* sweeps and clock advances, every key maps to a sequence that is not empty,
\* holds at most maxRequests (10) timestamps and is in non-decreasing order.
C39_MapWellFormed ==
    \A key \in DOMAIN hits :
        /\ Len(hits[key]) > 0
        /\ Len(hits[key]) <= maxRequests
        /\ \A i \in 1..(Len(hits[key]) - 1) : hits[key][i] <= hits[key][i + 1]

\* A key holds 10 timestamps taken at two different times, its last check
\* went through the denial branch, and another key is stored next to it.
C39_Witness ==
    /\ lastCheck.id \in DOMAIN hits
    /\ ~lastCheck.allowed
    /\ Len(hits[lastCheck.id]) = maxRequests
    /\ hits[lastCheck.id][1] < hits[lastCheck.id][maxRequests]
    /\ \E other \in DOMAIN hits : other # lastCheck.id

\* C4: when the upload answers PROCESSING and every poll answers PROCESSING,
\* the call ends after exactly MAX_POLL_ATTEMPTS (60) poll requests with the
\* timeout failure and without any download request.
C4_TimeoutAfterSixtyPolls ==
    (aPc = "done" /\ aUpload = "PROCESSING" /\ aSeen \subseteq {"PROCESSING"})
        => /\ aReqs.poll = MAX_POLL_ATTEMPTS
           /\ aResult = AudioFail("timeout", "", <<>>)
           /\ aReqs.download = 0

\* The call has ended on a job that never left PROCESSING.
C4_Witness ==
    /\ aPc = "done"
    /\ aUpload = "PROCESSING"
    /\ aSeen = {"PROCESSING"}
    /\ aReqs.upload = 1

\* C5: a failed poll request (non-2xx response or network error) consumes one
\* attempt, leaves the tracked status PROCESSING and does not end the call:
\* after it the call has ended only if the 60 attempts are used up, with the
\* timeout failure.
C5_PollFailureDoesNotEndCall ==
    aLastPoll \in {"http_error", "network_error"}
        => /\ status = "PROCESSING"
           /\ attempts = aReqs.poll
           /\ aPc = "done" =>
                (attempts = MAX_POLL_ATTEMPTS /\ aResult.error = "timeout")

\* C6: when the preferred-language fetch returns no captions (nothing, or an
\* empty list), exactly one fetch without a language hint follows before the
\* extraction ends; no extraction issues more than two caption fetches.
C6_OneFallbackFetch ==
    /\ Len(yFetches) <= 2
    /\ (yPc = "done" /\ yPreferred \in EmptyOutcomes)
            => yFetches = <<"pt", "none">>

\* The preferred fetch returned an empty list and the extraction failed.
C6_Witness ==
    /\ yPc = "done"
    /\ yPreferred = "empty"
    /\ ~yResult.ok
    /\ yFetches = <<"pt", "none">>

\* C2: two answered requests of kind link, or of kind audio, that submitted
\* the same content carry the same fingerprint, whatever text the extraction
\* produced for each of them.
C2_FingerprintOfRawContent ==
    \A r1 \in Reqs, r2 \in Reqs :
        (/\ req[r1].response.status = 200
         /\ req[r2].response.status = 200
         /\ req[r1].inputType \in {"link", "audio"}
         /\ req[r1].inputType = req[r2].inputType
         /\ req[r1].content = req[r2].content)
            => req[r1].response.fingerprint = req[r2].response.fingerprint

\* C3: a failure of the distributed counter backend (creating the limiter,
\* or its limit() call) never ends a request with a 500 response: the check
\* still returns a decision.
C3_LimiterFailureIsNot500 ==
    \A r \in Reqs :
        req[r].rl \in {"create_failed", "limit_failed"} =>
            ~(req[r].pc = "done" /\ req[r].response.status = 500)

\* C7: every warning of the extraction result is in the response, for a
\* request that succeeds (200) and for one that ends in an extraction
\* failure (422).
C7_WarningsSurfaced ==
    \A r \in Reqs :
        (req[r].pc = "done" /\ req[r].response.status \in {200, 422})
            => \A i \in 1..Len(req[r].extraction.warnings) :
                 \E j \in 1..Len(req[r].response.warnings) :
                    req[r].response.warnings[j] = req[r].extraction.warnings[i]

\* A request that failed because a credential is not configured: the model
\* credential, or the transcription-service credential of an audio request.
MissingCredential(r) ==
    \/ req[r].body = "ok" /\ ~env.gemini
    \/ req[r].extraction.error = "no_api_key"

\* C8: a request that fails because a required upstream credential is absent
\* is answered 503 with the misconfiguration error kind.
C8_MissingCredentialIs503 ==
    \A r \in Reqs :
        (req[r].pc = "done" /\ MissingCredential(r))
            => /\ req[r].response.status = 503
               /\ req[r].response.error = "SERVER_MISCONFIG"

\* C9: a request with malformed input that the server examines (it is
\* neither rate-limited nor stopped by a missing credential) is answered 400
\* with the validation error kind, never 422 or 500.
C9_MalformedInputIs400 ==
    \A r \in Reqs :
        (/\ req[r].pc = "done"
         /\ \/ req[r].body \in {"unparseable", "bad_shape"}
            \/ req[r].inputType = "link" /\ ~IsValidUrl(req[r].content)
            \/ req[r].inputType = "audio" /\ ~IsDataUrl(req[r].content)
         /\ req[r].response.status \notin {429, 503}
         /\ ~MissingCredential(r))
            => /\ req[r].response.status = 400
               /\ req[r].response.error = "VALIDATION"

====
